---- MODULE Spec2Model ----
(***************************************************************************)
(* Model of nfs_exports.py: the registry ("/etc/exports") rewrite engine.  *)
(*                                                                         *)
(* Text is modelled at character level: a string is a sequence of          *)
(* one-character strings, a file is the sequence of its bytes.  The line   *)
(* reader, the shlex tokenizer, the host-group parser, the matcher and the *)
(* writer are computed as the code computes them.  The code writes str to  *)
(* a NamedTemporaryFile, which only works on Python 2; the model follows   *)
(* the Python 2 behaviour.                                                 *)
(***************************************************************************)
EXTENDS Integers, Sequences, FiniteSets, TLC

(***************************************************************************)
(* Characters and generic string helpers                                   *)
(***************************************************************************)
NL == "\n"
SP == " "
HASH == "#"
LPAR == "("
RPAR == ")"
DQ == "\""

\* str.lower() restricted to the letters that occur in the modelled inputs
LowerChar(c) ==
    CASE c = "H" -> "h"
      [] c = "G" -> "g"
      [] OTHER -> c

Lower(s) == [i \in 1..Len(s) |-> LowerChar(s[i])]

\* c in s
Contains(s, c) == \E i \in 1..Len(s) : s[i] = c

\* s[a:b] with 1-based inclusive bounds; empty when a > b
Slice(s, a, b) == IF a > b THEN <<>> ELSE SubSeq(s, a, b)

\* s.split(c): the pieces between the occurrences of c (always >= 1 piece)
RECURSIVE SplitOn(_, _, _, _)
SplitOn(s, c, i, cur) ==
    IF i > Len(s) THEN <<cur>>
    ELSE IF s[i] = c THEN <<cur>> \o SplitOn(s, c, i + 1, <<>>)
    ELSE SplitOn(s, c, i + 1, Append(cur, s[i]))

Split(s, c) == SplitOn(s, c, 1, <<>>)

\* iteration over a text file: lines keep their trailing newline, a last
\* line without newline is returned as it is
RECURSIVE ReadLinesFrom(_, _, _)
ReadLinesFrom(text, i, cur) ==
    IF i > Len(text) THEN (IF cur = <<>> THEN <<>> ELSE <<cur>>)
    ELSE IF text[i] = NL THEN <<Append(cur, NL)>> \o ReadLinesFrom(text, i + 1, <<>>)
    ELSE ReadLinesFrom(text, i + 1, Append(cur, text[i]))

ReadLines(text) == ReadLinesFrom(text, 1, <<>>)

(***************************************************************************)
(* shlex.split(line, '#'): posix mode, whitespace_split, comments enabled. *)
(* The lexer states are "ws" (between tokens), "word" and "quote" (inside  *)
(* double quotes).  The inputs hold no backslash and no single quote.      *)
(***************************************************************************)
Whitespace == {SP, "\t", "\r", NL}

RECURSIVE Lex(_, _, _, _, _, _)
Lex(s, i, state, tok, quoted, acc) ==
    IF i > Len(s) THEN
        IF state = "quote" THEN [err |-> TRUE, parts |-> <<>>]
        ELSE IF state = "word" THEN [err |-> FALSE, parts |-> Append(acc, tok)]
        ELSE [err |-> FALSE, parts |-> acc]
    ELSE LET c == s[i] IN
        CASE state = "ws" ->
                IF c \in Whitespace THEN Lex(s, i + 1, "ws", <<>>, FALSE, acc)
                ELSE IF c = HASH THEN [err |-> FALSE, parts |-> acc]
                ELSE IF c = DQ THEN Lex(s, i + 1, "quote", <<>>, TRUE, acc)
                ELSE Lex(s, i + 1, "word", <<c>>, FALSE, acc)
          [] state = "word" ->
                IF c \in Whitespace THEN Lex(s, i + 1, "ws", <<>>, FALSE, Append(acc, tok))
                ELSE IF c = HASH THEN [err |-> FALSE, parts |-> Append(acc, tok)]
                ELSE IF c = DQ THEN Lex(s, i + 1, "quote", tok, TRUE, acc)
                ELSE Lex(s, i + 1, "word", Append(tok, c), quoted, acc)
          [] state = "quote" ->
                IF c = DQ THEN Lex(s, i + 1, "word", tok, TRUE, acc)
                ELSE Lex(s, i + 1, "quote", Append(tok, c), TRUE, acc)

shlex_split(line) == Lex(line, 1, "ws", <<>>, FALSE, <<>>)

(***************************************************************************)
(* Entry parser, matcher and writer.  An export is the tuple               *)
(* <<path, host, optionstring>>.                                           *)
(***************************************************************************)
Star == <<"*">>

\* one host group of _parse_export; `'(' and ')' in host` is `')' in host`.
\* The two-name unpacking of host[:-1].split('(') raises ValueError unless
\* the split yields exactly two pieces.
ParseHost(path, host) ==
    IF Contains(host, RPAR) THEN
        IF host[1] # LPAR THEN
            LET pieces == Split(Slice(host, 1, Len(host) - 1), LPAR) IN
            IF Len(pieces) = 2
            THEN [err |-> FALSE, exp |-> <<path, pieces[1], pieces[2]>>]
            ELSE [err |-> TRUE, exp |-> <<>>]
        ELSE [err |-> FALSE, exp |-> <<path, Star, Slice(host, 2, Len(host) - 1)>>]
    ELSE [err |-> FALSE, exp |-> <<path, host, <<>> >>]

\* _parse_export: err stands for the ValueError raised by shlex.split (no
\* closing quotation) or by the unpacking in a host group
_parse_export(line) ==
    IF Len(line) < 1 THEN [err |-> FALSE, exports |-> <<>>]
    ELSE LET lx == shlex_split(line) IN
        IF lx.err THEN [err |-> TRUE, exports |-> <<>>]
        ELSE IF Len(lx.parts) < 1 THEN [err |-> FALSE, exports |-> <<>>]
        ELSE LET parts == lx.parts
                 hosts == [k \in 1..(Len(parts) - 1) |-> ParseHost(parts[1], parts[k + 1])]
             IN IF \E k \in 1..Len(hosts) : hosts[k].err
                THEN [err |-> TRUE, exports |-> <<>>]
                ELSE [err |-> FALSE, exports |-> [k \in 1..Len(hosts) |-> hosts[k].exp]]

\* a variant that compares the client names as they are
SameExportCaseSensitive(exp, path, host) == exp[1] = path /\ exp[2] = host

\* the comparison shared by match_export and filter_export
SameExport(exp, path, host) == exp[1] = path /\ Lower(exp[2]) = Lower(host)

match_export(exportlist, path, host) ==
    IF Len(exportlist) < 1 THEN FALSE
    ELSE \E k \in 1..Len(exportlist) : SameExport(exportlist[k], path, host)

\* filter_export: err stands for LookupError
filter_export(exportlist, path, host) ==
    IF Len(exportlist) < 1 THEN [err |-> TRUE, exports |-> <<>>]
    ELSE LET newlist == SelectSeq(exportlist, LAMBDA e : ~SameExport(e, path, host)) IN
         IF \E k \in 1..Len(exportlist) : SameExport(exportlist[k], path, host)
         THEN [err |-> FALSE, exports |-> newlist]
         ELSE [err |-> TRUE, exports |-> <<>>]

\* _write_exports: the text written for a list of exports
RECURSIVE WriteFrom(_, _, _)
WriteFrom(exports, k, lastpath) ==
    IF k > Len(exports) THEN <<NL>>
    ELSE LET path == exports[k][1]
             host == exports[k][2]
             opt == exports[k][3]
             pathtext == IF <<path>> # lastpath
                         THEN (IF Contains(path, SP) THEN <<DQ>> \o path \o <<DQ>> ELSE path)
                         ELSE <<>>
             hosttext == IF Len(opt) > 0
                         THEN <<SP>> \o host \o <<LPAR>> \o opt \o <<RPAR>>
                         ELSE <<SP>> \o host
         IN pathtext \o hosttext \o WriteFrom(exports, k + 1, <<path>>)

\* lastpath starts as None, here the empty tuple (no path is wrapped as <<path>>)
_write_exports(exports) == WriteFrom(exports, 1, <<>>)

(***************************************************************************)
(* replace_export as a function of the registry text.  An operation is the *)
(* record of the arguments of replace_export; options is <<>> for None     *)
(* (remove) and <<optionstring>> for an add.                               *)
(***************************************************************************)
HeaderComment ==
    <<"#", " ", "N", "F", "S", " ", "e", "x", "p", "o", "r", "t", "s", " ",
      "m", "a", "n", "a", "g", "e", "d", " ", "b", "y", " ",
      "A", "n", "s", "i", "b", "l", "e", NL>>

\* a variant that calls filter_export without asking match_export first
LoopBodyUnguarded(line, o) ==
    IF line = <<>> \/ line[1] = HASH
    THEN [exc |-> "none", text |-> line, counted |-> 1]
    ELSE IF o.clear_all
    THEN [exc |-> "none", text |-> <<>>, counted |-> 0]
    ELSE LET parsed == _parse_export(line) IN
         IF parsed.err
         THEN [exc |-> "ValueError", text |-> <<>>, counted |-> 0]
         ELSE LET kept == filter_export(parsed.exports, o.path, o.clients) IN
              IF kept.err
              THEN [exc |-> "LookupError", text |-> <<>>, counted |-> 0]
              ELSE IF kept.exports # <<>>
              THEN [exc |-> "none", text |-> _write_exports(kept.exports), counted |-> 1]
              ELSE [exc |-> "none", text |-> <<>>, counted |-> 0]

\* body of the loop over the lines of infile: what is written to outfile,
\* whether `lines` is incremented, and the exception raised ("none" if none)
LoopBody(line, o) ==
    IF line = <<>> \/ line[1] = HASH
    THEN [exc |-> "none", text |-> line, counted |-> 1]
    ELSE IF o.clear_all
    THEN [exc |-> "none", text |-> <<>>, counted |-> 0]
    ELSE LET parsed == _parse_export(line) IN
         IF parsed.err
         THEN [exc |-> "ValueError", text |-> <<>>, counted |-> 0]
         ELSE IF match_export(parsed.exports, o.path, o.clients)
         THEN LET kept == filter_export(parsed.exports, o.path, o.clients) IN
              IF kept.err
              THEN [exc |-> "LookupError", text |-> <<>>, counted |-> 0]
              ELSE IF kept.exports # <<>>
              THEN [exc |-> "none", text |-> _write_exports(kept.exports), counted |-> 1]
              ELSE [exc |-> "none", text |-> <<>>, counted |-> 0]
         ELSE [exc |-> "none", text |-> line, counted |-> 1]

\* the writes after the loop without the explanatory comment
AfterLoopNoHeader(o, lines) ==
    IF o.options # <<>>
    THEN _write_exports(<< <<o.path, o.clients, o.options[1]>> >>)
    ELSE <<>>

\* the writes after the loop: the explanatory comment when nothing was
\* written, then the new entry of an add
AfterLoop(o, lines) ==
    (IF lines = 0 THEN HeaderComment ELSE <<>>)
    \o (IF o.options # <<>>
        THEN _write_exports(<< <<o.path, o.clients, o.options[1]>> >>)
        ELSE <<>>)

\* the loop run over all lines from line k on
RECURSIVE LoopFrom(_, _, _, _, _)
LoopFrom(inlines, k, o, out, lines) ==
    IF k > Len(inlines) THEN [exc |-> "none", out |-> out, lines |-> lines]
    ELSE LET b == LoopBody(inlines[k], o) IN
         IF b.exc # "none" THEN [exc |-> b.exc, out |-> out, lines |-> lines]
         ELSE LoopFrom(inlines, k + 1, o, out \o b.text, lines + b.counted)

\* the content of the temp file when replace_export reaches the rename, or
\* the exception that ended it
Rewrite(text, o) ==
    LET l == LoopFrom(ReadLines(text), 1, o, <<>>, 0) IN
    IF l.exc # "none" THEN l
    ELSE [exc |-> "none", out |-> l.out \o AfterLoop(o, l.lines), lines |-> l.lines]

(***************************************************************************)
(* Bounded inputs                                                          *)
(***************************************************************************)
MaxLines == 2

PathP == <<"/", "p">>
PathAB == <<"/", "a", SP, "b">>
HostLower == <<"h">>
HostUpper == <<"H">>
OptRo == <<"r", "o">>

\* #c
LineComment == <<"#", "c">>
\* the blank line
LineBlank == <<>>
\* /p H(rw) (ro)
LineTwoHosts == <<"/", "p", SP, "H", LPAR, "r", "w", RPAR, SP, LPAR, "r", "o", RPAR>>
\* "/a b" h(rw)
LineQuotedPath == <<DQ, "/", "a", SP, "b", DQ, SP, "h", LPAR, "r", "w", RPAR>>
\* /p g)
LineBadParen == <<"/", "p", SP, "g", RPAR>>

\* /p "g h" h(rw)
LineQuotedHost == <<"/", "p", SP, DQ, "g", SP, "h", DQ, SP, "h", LPAR, "r", "w", RPAR>>

LinePool ==
    {LineComment, LineBlank, LineTwoHosts, LineQuotedPath, LineBadParen, LineQuotedHost}
SmallLinePool == {LineComment, LineTwoHosts, LineBadParen}

\* the text of a file holding the given lines; the last line ends with a
\* newline or not
RECURSIVE JoinLines(_, _)
JoinLines(ls, finalNL) ==
    IF ls = <<>> THEN <<>>
    ELSE IF Len(ls) = 1 THEN (IF finalNL THEN Append(ls[1], NL) ELSE ls[1])
    ELSE Append(ls[1], NL) \o JoinLines(Tail(ls), finalNL)

TextsOver(pool) ==
    { JoinLines(ls, nl) : ls \in UNION { [1..n -> pool] : n \in 0..MaxLines },
                          nl \in BOOLEAN }

Operation(path, clients, options, clear_all) ==
    [path |-> path, clients |-> clients, options |-> options, clear_all |-> clear_all]

Ops ==
    { Operation(pa, cl, opt, ca) :
        pa \in {PathP, PathAB}, cl \in {HostLower, HostUpper, Star},
        opt \in {<<>>, <<OptRo>>}, ca \in BOOLEAN }

SmallOps ==
    { Operation(PathP, HostLower, <<OptRo>>, FALSE),
      Operation(PathAB, Star, <<OptRo>>, FALSE),
      Operation(PathP, HostUpper, <<>>, FALSE),
      Operation(PathP, HostUpper, <<OptRo>>, TRUE) }

NoOperation == Operation(<<>>, <<>>, <<>>, FALSE)

(***************************************************************************)
(* State.  The directory of _EXPORTS holds the registry name, bound to an  *)
(* inode or missing, and one temp name per invocation.  Inode 0 is the     *)
(* registry file that exists at the start, inode p the temp file of        *)
(* invocation p.                                                           *)
(***************************************************************************)
Procs == {1, 2}
Inodes == {0} \cup Procs
Missing == -1

VARIABLES
    files,      \* inode -> content
    registry,   \* the inode bound to the name _EXPORTS, or Missing
    tmppath,    \* invocation -> whether its temp name exists in the directory
    pc,         \* invocation -> position in replace_export
    args,       \* invocation -> the operation it was called with
    infile,     \* invocation -> inode open for reading, or Missing
    outfile,    \* invocation -> inode open for writing, or Missing
    nread,      \* invocation -> number of lines of infile consumed
    lines,      \* invocation -> the counter `lines`
    exc,        \* invocation -> the exception that ended it ("none" if none)
    mpc,        \* invocation -> position in run_module
    params,     \* invocation -> the module parameters it was started with
    reloads,    \* invocation -> number of times it has run the exportfs command
    session,    \* process -> its call of _open_exports(True, ...): position, mode, handle
    flock,      \* inode -> the process holding the exclusive lock, or Missing
    call        \* the call of a codec or parser function under examination

\* the state of replace_export and of the files
rvars == <<files, registry, tmppath, pc, args, infile, outfile, nread, lines, exc>>

vars == <<files, registry, tmppath, pc, args, infile, outfile, nread, lines, exc,
          mpc, params, reloads, session, flock, call>>

InitProcs ==
    /\ tmppath = [p \in Procs |-> FALSE]
    /\ pc = [p \in Procs |-> "start"]
    /\ args = [p \in Procs |-> NoOperation]
    /\ infile = [p \in Procs |-> Missing]
    /\ outfile = [p \in Procs |-> Missing]
    /\ nread = [p \in Procs |-> 0]
    /\ lines = [p \in Procs |-> 0]
    /\ exc = [p \in Procs |-> "none"]

InitFiles(pool) ==
    \/ /\ registry = 0
       /\ \E t \in TextsOver(pool) : files = [i \in Inodes |-> IF i = 0 THEN t ELSE <<>>]
    \/ /\ registry = Missing
       /\ files = [i \in Inodes |-> <<>>]

NoParams == [check_mode |-> FALSE, update |-> FALSE, valid |-> TRUE]
NoSession == [at |-> "idle", mode |-> "", fd |-> Missing]
NoCall == [fn |-> "none", input |-> <<>>, arg |-> <<>>, err |-> FALSE, ret |-> <<>>]

\* nothing has entered run_module
InitModule ==
    /\ mpc = [p \in Procs |-> "idle"]
    /\ params = [p \in Procs |-> NoParams]
    /\ reloads = [p \in Procs |-> 0]

\* nobody has called _open_exports(True, ...)
InitSessions ==
    /\ session = [p \in Procs |-> NoSession]
    /\ flock = [i \in Inodes |-> Missing]

Init == InitFiles(SmallLinePool) /\ InitProcs /\ InitModule /\ InitSessions /\ call = NoCall

(***************************************************************************)
(* replace_export, step by step.  Independent invocations interleave at    *)
(* these steps.  Every system call of the try blocks may fail with         *)
(* IOError/OSError; the handlers unlink the temp file and re-raise.        *)
(***************************************************************************)
Terminal == {"done", "failed", "crashed"}

\* a variant whose handler unlinks the registry instead of the temp file
HandlerUnlinksRegistry(p, e) ==
    /\ registry' = Missing
    /\ pc' = [pc EXCEPT ![p] = "failed"]
    /\ exc' = [exc EXCEPT ![p] = e]
    /\ outfile' = [outfile EXCEPT ![p] = Missing]
    /\ UNCHANGED <<files, tmppath>>

\* the except clauses of replace_export (lines 330-332 and 362-366)
Handler(p, e) ==
    /\ tmppath' = [tmppath EXCEPT ![p] = FALSE]
    /\ pc' = [pc EXCEPT ![p] = "failed"]
    /\ exc' = [exc EXCEPT ![p] = e]
    /\ outfile' = [outfile EXCEPT ![p] = Missing]
    /\ UNCHANGED <<files, registry>>

\* an exception that no except clause of replace_export catches
Uncaught(p, e) ==
    /\ pc' = [pc EXCEPT ![p] = "crashed"]
    /\ exc' = [exc EXCEPT ![p] = e]
    /\ UNCHANGED <<files, registry, tmppath, outfile>>

\* a variant that opens the registry itself for writing instead of a temp file
MakeTempInPlace(p) ==
    /\ registry # Missing
    /\ tmppath' = [tmppath EXCEPT ![p] = TRUE]
    /\ files' = [files EXCEPT ![registry] = <<>>]
    /\ outfile' = [outfile EXCEPT ![p] = registry]

\* tempfile.NamedTemporaryFile(dir=..., delete=False): a new empty file
MakeTemp(p) ==
    /\ tmppath' = [tmppath EXCEPT ![p] = TRUE]
    /\ files' = [files EXCEPT ![p] = <<>>]
    /\ outfile' = [outfile EXCEPT ![p] = p]

CreateTemp(p) ==
    /\ pc[p] = "start"
    /\ \E o \in SmallOps : args' = [args EXCEPT ![p] = o]
    /\ MakeTemp(p)
    /\ pc' = [pc EXCEPT ![p] = "open"]
    /\ UNCHANGED <<registry, infile, nread, lines, exc>>

CreateTempFails(p) ==
    /\ pc[p] = "start"
    /\ \E o \in SmallOps : args' = [args EXCEPT ![p] = o]
    /\ pc' = [pc EXCEPT ![p] = "failed"]
    /\ exc' = [exc EXCEPT ![p] = "OSError"]
    /\ UNCHANGED <<files, registry, tmppath, infile, outfile, nread, lines>>

\* _open_exports(False, _EXPORTS, result): mode "r", no lock is taken
OpenExports(p) ==
    /\ pc[p] = "open"
    /\ IF registry = Missing
       THEN /\ Handler(p, "IOError")
            /\ UNCHANGED infile
       ELSE /\ infile' = [infile EXCEPT ![p] = registry]
            /\ pc' = [pc EXCEPT ![p] = "loop"]
            /\ UNCHANGED <<files, registry, tmppath, outfile, exc>>
    /\ UNCHANGED <<args, nread, lines>>

OpenExportsFails(p) ==
    /\ pc[p] = "open"
    /\ registry # Missing
    /\ Handler(p, "IOError")
    /\ UNCHANGED <<args, infile, nread, lines>>

InLines(p) == ReadLines(files[infile[p]])

\* one iteration of `for line in infile`
LoopStep(p) ==
    /\ pc[p] = "loop"
    /\ nread[p] < Len(InLines(p))
    /\ \E b \in {LoopBody(InLines(p)[nread[p] + 1], args[p])} :
       IF b.exc # "none"
       THEN /\ Uncaught(p, b.exc)
            /\ UNCHANGED <<nread, lines>>
       ELSE /\ files' = [files EXCEPT ![outfile[p]] = @ \o b.text]
            /\ nread' = [nread EXCEPT ![p] = @ + 1]
            /\ lines' = [lines EXCEPT ![p] = @ + b.counted]
            /\ UNCHANGED <<registry, tmppath, outfile, pc, exc>>
    /\ UNCHANGED <<args, infile>>

\* lines 352-357, once the loop is exhausted
LoopEnd(p) ==
    /\ pc[p] = "loop"
    /\ nread[p] = Len(InLines(p))
    /\ files' = [files EXCEPT ![outfile[p]] = @ \o AfterLoop(args[p], lines[p])]
    /\ pc' = [pc EXCEPT ![p] = "close"]
    /\ UNCHANGED <<registry, tmppath, args, infile, outfile, nread, lines, exc>>

\* outfile.close(); infile.close()
CloseFiles(p) ==
    /\ pc[p] = "close"
    /\ outfile' = [outfile EXCEPT ![p] = Missing]
    /\ pc' = [pc EXCEPT ![p] = "rename"]
    /\ UNCHANGED <<files, registry, tmppath, args, infile, nread, lines, exc>>

\* os.rename(tmppath, _EXPORTS): the temp name goes, the registry name is
\* bound to the temp inode
Rename(p) ==
    /\ pc[p] = "rename"
    /\ registry' = p
    /\ tmppath' = [tmppath EXCEPT ![p] = FALSE]
    /\ pc' = [pc EXCEPT ![p] = "done"]
    /\ UNCHANGED <<files, args, infile, outfile, nread, lines, exc>>

\* a read, write, close or rename inside the second try block fails
IOFails(p) ==
    /\ pc[p] \in {"loop", "close", "rename"}
    /\ \E e \in {"IOError", "OSError"} : Handler(p, e)
    /\ UNCHANGED <<args, infile, nread, lines>>

Step(p) ==
    \/ CreateTemp(p)
    \/ CreateTempFails(p)
    \/ OpenExports(p)
    \/ OpenExportsFails(p)
    \/ LoopStep(p)
    \/ LoopEnd(p)
    \/ CloseFiles(p)
    \/ Rename(p)
    \/ IOFails(p)

Next == (\E p \in Procs : Step(p)) /\ UNCHANGED <<mpc, params, reloads, session, flock, call>>

Spec == Init /\ [][Next]_vars

(***************************************************************************)
(* replace_export run to completion, one invocation after the other.  No   *)
(* system call fails in these runs (the failures are covered by Spec); the *)
(* missing registry and the exceptions of the parser remain.               *)
(***************************************************************************)
\* a replace_export that reads a missing registry as an empty file
RunMissingAsEmpty(p) ==
    /\ pc[p] = "start"
    /\ \A q \in Procs : q < p => pc[q] \in Terminal
    /\ \E o \in Ops :
        /\ args' = [args EXCEPT ![p] = o]
        /\ \E r \in {Rewrite(IF registry = Missing THEN <<>> ELSE files[registry], o)} :
                /\ files' = [files EXCEPT ![p] = r.out]
                /\ infile' = [infile EXCEPT ![p] = registry]
                /\ lines' = [lines EXCEPT ![p] = r.lines]
                /\ exc' = [exc EXCEPT ![p] = r.exc]
                /\ IF r.exc # "none"
                   THEN /\ pc' = [pc EXCEPT ![p] = "crashed"]
                        /\ tmppath' = [tmppath EXCEPT ![p] = TRUE]
                        /\ outfile' = [outfile EXCEPT ![p] = p]
                        /\ UNCHANGED <<registry, nread>>
                   ELSE /\ pc' = [pc EXCEPT ![p] = "done"]
                        /\ registry' = p
                        /\ nread' = [nread EXCEPT ![p] = 0]
                        /\ UNCHANGED <<tmppath, outfile>>

Run(p) ==
    /\ pc[p] = "start"
    /\ \A q \in Procs : q < p => pc[q] \in Terminal
    /\ \E o \in Ops :
        /\ args' = [args EXCEPT ![p] = o]
        /\ IF registry = Missing
           THEN /\ files' = [files EXCEPT ![p] = <<>>]
                /\ pc' = [pc EXCEPT ![p] = "failed"]
                /\ exc' = [exc EXCEPT ![p] = "IOError"]
                /\ UNCHANGED <<registry, tmppath, infile, outfile, nread, lines>>
           ELSE \E r \in {Rewrite(files[registry], o)} :
                /\ files' = [files EXCEPT ![p] = r.out]
                /\ infile' = [infile EXCEPT ![p] = registry]
                /\ lines' = [lines EXCEPT ![p] = r.lines]
                /\ exc' = [exc EXCEPT ![p] = r.exc]
                /\ IF r.exc # "none"
                   THEN /\ pc' = [pc EXCEPT ![p] = "crashed"]
                        /\ tmppath' = [tmppath EXCEPT ![p] = TRUE]
                        /\ outfile' = [outfile EXCEPT ![p] = p]
                        /\ UNCHANGED <<registry, nread>>
                   ELSE /\ pc' = [pc EXCEPT ![p] = "done"]
                        /\ registry' = p
                        /\ nread' = [nread EXCEPT ![p] = Len(ReadLines(files[registry]))]
                        /\ UNCHANGED <<tmppath, outfile>>

SeqInit == InitFiles(LinePool) /\ InitProcs /\ InitModule /\ InitSessions /\ call = NoCall

SeqNext == (\E p \in Procs : Run(p)) /\ UNCHANGED <<mpc, params, reloads, session, flock, call>>

SeqSpec == SeqInit /\ [][SeqNext]_vars

(***************************************************************************)
(* run_module: the invocations of the module, each running replace_export  *)
(* step by step, started one after the other as the tasks of a play are    *)
(* (Spec has the concurrent rewrites).                                     *)
(* mpc is the position in run_module: "idle" (not started),                *)
(* "entered" (parameters read), "returned" (check mode), "replace_export", *)
(* "update_exports", "finish", and the ends "exit_json", "fail_json" and   *)
(* "traceback" (an exception nobody catches).                              *)
(***************************************************************************)
ModuleEnds == {"returned", "exit_json", "fail_json", "traceback"}

\* AnsibleModule(...) has read the parameters
ModStart(p) ==
    /\ mpc[p] = "idle"
    /\ \A q \in Procs : q < p => mpc[q] \in ModuleEnds
    /\ \E c, u \in BOOLEAN :
          params' = [params EXCEPT ![p] = [check_mode |-> c, update |-> u, valid |-> TRUE]]
    /\ mpc' = [mpc EXCEPT ![p] = "entered"]
    /\ UNCHANGED <<rvars, reloads>>

\* "if module.check_mode: return result"
CheckMode(p) ==
    /\ mpc[p] = "entered"
    /\ params[p].check_mode
    /\ mpc' = [mpc EXCEPT ![p] = "returned"]
    /\ UNCHANGED <<rvars, params, reloads>>

\* an add whose path is not a directory, or an action that is neither add
\* nor remove: fail_json before anything is done
BadRequest(p) ==
    /\ mpc[p] = "entered"
    /\ ~params[p].check_mode
    /\ params' = [params EXCEPT ![p].valid = FALSE]
    /\ mpc' = [mpc EXCEPT ![p] = "fail_json"]
    /\ UNCHANGED <<rvars, reloads>>

\* a call of replace_export made in check mode as well
CallReplaceInCheckMode(p) ==
    /\ mpc[p] = "entered"
    /\ mpc' = [mpc EXCEPT ![p] = "replace_export"]
    /\ UNCHANGED <<rvars, params, reloads>>

\* action add or remove: replace_export is called
CallReplace(p) ==
    /\ mpc[p] = "entered"
    /\ ~params[p].check_mode
    /\ mpc' = [mpc EXCEPT ![p] = "replace_export"]
    /\ UNCHANGED <<rvars, params, reloads>>

\* a step of replace_export
ReplaceStep(p) ==
    /\ mpc[p] = "replace_export"
    /\ Step(p)
    /\ UNCHANGED <<mpc, params, reloads>>

\* a failed replace_export followed by the reload
ReplaceFailedReloads(p) ==
    /\ mpc[p] = "replace_export"
    /\ pc[p] = "failed"
    /\ mpc' = [mpc EXCEPT ![p] = "update_exports"]
    /\ UNCHANGED <<rvars, params, reloads>>

\* replace_export raised IOError or OSError: fail_json
ReplaceFailed(p) ==
    /\ mpc[p] = "replace_export"
    /\ pc[p] = "failed"
    /\ mpc' = [mpc EXCEPT ![p] = "fail_json"]
    /\ UNCHANGED <<rvars, params, reloads>>

\* replace_export raised an exception run_module does not catch
ReplaceCrashed(p) ==
    /\ mpc[p] = "replace_export"
    /\ pc[p] = "crashed"
    /\ mpc' = [mpc EXCEPT ![p] = "traceback"]
    /\ UNCHANGED <<rvars, params, reloads>>

\* replace_export returned: "if module.params['update']"
ReplaceReturned(p) ==
    /\ mpc[p] = "replace_export"
    /\ pc[p] = "done"
    /\ mpc' = [mpc EXCEPT ![p] = IF params[p].update THEN "update_exports" ELSE "finish"]
    /\ UNCHANGED <<rvars, params, reloads>>

\* update_exports runs the exportfs command, which succeeds or fails
UpdateExports(p) ==
    /\ mpc[p] = "update_exports"
    /\ reloads' = [reloads EXCEPT ![p] = @ + 1]
    /\ \E ok \in BOOLEAN :
          mpc' = [mpc EXCEPT ![p] = IF ok THEN "finish" ELSE "fail_json"]
    /\ UNCHANGED <<rvars, params>>

\* exit_json, or fail_json when the name parameter is 'fail me'
Finish(p) ==
    /\ mpc[p] = "finish"
    /\ \E failme \in BOOLEAN :
          mpc' = [mpc EXCEPT ![p] = IF failme THEN "fail_json" ELSE "exit_json"]
    /\ UNCHANGED <<rvars, params, reloads>>

ModStep(p) ==
    \/ ModStart(p) \/ CheckMode(p) \/ BadRequest(p) \/ CallReplace(p)
    \/ ReplaceStep(p) \/ ReplaceFailed(p) \/ ReplaceCrashed(p) \/ ReplaceReturned(p)
    \/ UpdateExports(p) \/ Finish(p)

ModNext == (\E p \in Procs : ModStep(p)) /\ UNCHANGED <<session, flock, call>>

ModSpec == Init /\ [][ModNext]_vars

(***************************************************************************)
(* The locked file session: processes that call _open_exports(True, ...)   *)
(* on the registry, step by step: the os.path.exists test, open() and      *)
(* flock().  A process that got the handle back may write the file         *)
(* through it and then closes it, which releases the lock.  A file created *)
(* by process p is inode p.                                                *)
(***************************************************************************)
Holding == {"held", "wrote"}

\* "if not os.path.exists(filename)" chooses the mode
SessExists(p) ==
    /\ session[p].at = "idle"
    /\ session' = [session EXCEPT ![p] =
                      [at |-> "open",
                       mode |-> IF registry = Missing THEN "w" ELSE "r+",
                       fd |-> Missing]]
    /\ UNCHANGED <<files, registry, flock>>

\* open(filename, mode): mode "w" creates the file or truncates the one that
\* is there, mode "r+" opens the one that is there
SessOpen(p) ==
    /\ session[p].at = "open"
    /\ IF registry = Missing
       THEN /\ session[p].mode = "w"
            /\ files' = [files EXCEPT ![p] = <<>>]
            /\ registry' = p
            /\ session' = [session EXCEPT ![p].at = "flock", ![p].fd = p]
       ELSE /\ files' = IF session[p].mode = "w"
                        THEN [files EXCEPT ![registry] = <<>>]
                        ELSE files
            /\ session' = [session EXCEPT ![p].at = "flock", ![p].fd = registry]
            /\ UNCHANGED registry
    /\ UNCHANGED flock

\* open() raises IOError
SessOpenFails(p) ==
    /\ session[p].at = "open"
    /\ session' = [session EXCEPT ![p].at = "raised"]
    /\ UNCHANGED <<files, registry, flock>>

\* fcntl.flock(efile, LOCK_EX) returns once nobody else holds the lock
SessFlock(p) ==
    /\ session[p].at = "flock"
    /\ flock[session[p].fd] = Missing
    /\ flock' = [flock EXCEPT ![session[p].fd] = p]
    /\ session' = [session EXCEPT ![p].at = "held"]
    /\ UNCHANGED <<files, registry>>

\* flock() raises IOError; the handle is dropped
SessFlockFails(p) ==
    /\ session[p].at = "flock"
    /\ session' = [session EXCEPT ![p].at = "raised", ![p].fd = Missing]
    /\ UNCHANGED <<files, registry, flock>>

\* the holder of the handle writes the file
SessWrite(p) ==
    /\ session[p].at = "held"
    /\ \E l \in SmallLinePool : files' = [files EXCEPT ![session[p].fd] = l \o <<NL>>]
    /\ session' = [session EXCEPT ![p].at = "wrote"]
    /\ UNCHANGED <<registry, flock>>

\* the holder closes the handle, which releases the lock
SessClose(p) ==
    /\ session[p].at \in Holding
    /\ flock' = [flock EXCEPT ![session[p].fd] = Missing]
    /\ session' = [session EXCEPT ![p].at = "closed", ![p].fd = Missing]
    /\ UNCHANGED <<files, registry>>

SessStep(p) ==
    \/ SessExists(p) \/ SessOpen(p) \/ SessOpenFails(p)
    \/ SessFlock(p) \/ SessFlockFails(p) \/ SessWrite(p) \/ SessClose(p)

LockNext ==
    /\ \E p \in Procs : SessStep(p)
    /\ UNCHANGED <<tmppath, pc, args, infile, outfile, nread, lines, exc,
                   mpc, params, reloads, call>>

LockSpec == Init /\ [][LockNext]_vars

(***************************************************************************)
(* The option codec: _parse_options and _print_options.  A dict is a       *)
(* function from its keys to their values; an optional value (None or a    *)
(* value) is a sequence of length 0 or 1.  The call under examination is   *)
(* held in `call`: the function to call next, the original input, the      *)
(* argument of the next call and the result of the last one.               *)
(***************************************************************************)
COMMA == ","
EQUALS == "="

\* ord(c) for the characters of the option names and values
Ord(c) ==
    CASE c = COMMA -> 44
      [] c = EQUALS -> 61
      [] c = "r" -> 114
      [] c = "s" -> 115
      [] OTHER -> 0

\* s < t for two strings
RECURSIVE StrLess(_, _)
StrLess(s, t) ==
    IF t = <<>> THEN FALSE
    ELSE IF s = <<>> THEN TRUE
    ELSE IF Ord(s[1]) # Ord(t[1]) THEN Ord(s[1]) < Ord(t[1])
    ELSE StrLess(Tail(s), Tail(t))

\* sorted(keys)
RECURSIVE sorted(_)
sorted(keys) ==
    IF keys = {} THEN <<>>
    ELSE LET m == CHOOSE x \in keys : \A y \in keys \ {x} : StrLess(x, y)
         IN <<m>> \o sorted(keys \ {m})

\* sep.join(list)
RECURSIVE Join(_, _)
Join(list, sep) ==
    IF list = <<>> THEN <<>>
    ELSE IF Len(list) = 1 THEN list[1]
    ELSE list[1] \o <<sep>> \o Join(Tail(list), sep)

EmptyDict == [x \in {} |-> <<>>]

_print_options(optionset) ==
    IF optionset = <<>> THEN <<>>
    ELSE LET S == optionset[1]
             keys == sorted(DOMAIN S)
             output == [i \in 1..Len(keys) |->
                          IF keys[i] = S[keys[i]] THEN keys[i]
                          ELSE keys[i] \o <<EQUALS>> \o S[keys[i]]]
         IN IF output # <<>> THEN <<Join(output, COMMA)>> ELSE <<>>

\* an item of the option list read as a flag, with no value
ParseOptFlagNoValue(opt) ==
    IF Contains(opt, EQUALS)
    THEN LET pieces == Split(opt, EQUALS) IN
         IF Len(pieces) # 2 THEN [err |-> TRUE, key |-> <<>>, val |-> <<>>]
         ELSE [err |-> FALSE, key |-> pieces[1], val |-> pieces[2]]
    ELSE [err |-> FALSE, key |-> opt, val |-> <<>>]

\* one item of the option list: "key, val = opt.split('=')" raises ValueError
\* unless there are exactly two pieces
ParseOpt(opt) ==
    IF Contains(opt, EQUALS)
    THEN LET pieces == Split(opt, EQUALS) IN
         IF Len(pieces) # 2 THEN [err |-> TRUE, key |-> <<>>, val |-> <<>>]
         ELSE [err |-> FALSE, key |-> pieces[1], val |-> pieces[2]]
    ELSE [err |-> FALSE, key |-> opt, val |-> opt]

RECURSIVE OptionsFrom(_, _, _)
OptionsFrom(optionlist, k, options) ==
    IF k > Len(optionlist) THEN [err |-> FALSE, options |-> options]
    ELSE LET kv == ParseOpt(optionlist[k]) IN
         IF kv.err THEN [err |-> TRUE, options |-> options]
         ELSE OptionsFrom(optionlist, k + 1,
                          [x \in (DOMAIN options) \cup {kv.key} |->
                              IF x = kv.key THEN kv.val ELSE options[x]])

_parse_options(optionstring) ==
    IF optionstring = <<>> THEN [err |-> FALSE, options |-> EmptyDict]
    ELSE OptionsFrom(Split(optionstring[1], COMMA), 1, EmptyDict)

\* the names and the values the option sets are built from
OptNames == { <<>>, <<"r">>, <<"r", "s">>, <<"s">>, <<"r", EQUALS>> }
OptValues == { <<>>, <<"r">>, <<"s">>, <<"r", COMMA, "s">>, <<"r", EQUALS, "s">> }
OptionSets == UNION { [D -> OptValues] : D \in SUBSET OptNames }

\* no registry file, no temporary file
NoFiles ==
    /\ files = [i \in Inodes |-> <<>>]
    /\ registry = Missing

CodecInit ==
    /\ NoFiles /\ InitProcs /\ InitModule /\ InitSessions
    /\ \E S \in OptionSets :
          call = [fn |-> "_print_options", input |-> S, arg |-> <<S>>,
                  err |-> FALSE, ret |-> <<>>]

PrintOptions ==
    /\ call.fn = "_print_options"
    /\ \E r \in {_print_options(call.arg)} :
          call' = [call EXCEPT !.fn = "_parse_options", !.arg = r, !.ret = r]

ParseOptions ==
    /\ call.fn = "_parse_options"
    /\ \E r \in {_parse_options(call.arg)} :
          call' = [call EXCEPT !.fn = "return", !.err = r.err, !.ret = r.options]

CodecNext ==
    /\ PrintOptions \/ ParseOptions
    /\ UNCHANGED <<rvars, mpc, params, reloads, session, flock>>

CodecSpec == CodecInit /\ [][CodecNext]_vars

(***************************************************************************)
(* The entry parser on its own: _parse_export is called with a line made   *)
(* of the path /p and one host token, the token being any string of        *)
(* letters and parentheses up to MaxTok characters.                        *)
(***************************************************************************)
MaxTok == 4

TokChars == {"g", LPAR, RPAR}

HostTokens == UNION { [1..n -> TokChars] : n \in 1..MaxTok }

ParseInit ==
    /\ NoFiles /\ InitProcs /\ InitModule /\ InitSessions
    /\ \E tok \in HostTokens :
          call = [fn |-> "_parse_export", input |-> tok,
                  arg |-> PathP \o <<SP>> \o tok \o <<NL>>,
                  err |-> FALSE, ret |-> <<>>]

ParseExport ==
    /\ call.fn = "_parse_export"
    /\ \E r \in {_parse_export(call.arg)} :
          call' = [call EXCEPT !.fn = "return", !.err = r.err, !.ret = r.exports]

ParseNext ==
    /\ ParseExport
    /\ UNCHANGED <<rvars, mpc, params, reloads, session, flock>>

ParseSpec == ParseInit /\ [][ParseNext]_vars

(***************************************************************************)
(* Properties                                                              *)
(***************************************************************************)
RegistryContent == IF registry = Missing THEN <<>> ELSE files[registry]

IsComment(line) == line # <<>> /\ line[1] = HASH

Range(s) == {s[k] : k \in 1..Len(s)}

\* the exports of a line of the registry: none for a comment and for a line
\* that does not parse
ExportsIn(parsed) == IF parsed.err THEN <<>> ELSE parsed.exports

EntriesOf(line) == IF IsComment(line) THEN <<>> ELSE ExportsIn(_parse_export(line))

HasEntry(text, path, host) ==
    \E line \in Range(ReadLines(text)) :
        \E e \in Range(EntriesOf(line)) :
            e[1] = path /\ Lower(e[2]) = Lower(host)

IsAdd(o) == o.options # <<>>
IsRemove(o) == o.options = <<>>

\* C1: at every moment the inode bound to the registry name is either the
\* file that was there at the start, which no invocation has open for
\* writing, or the temp file of an invocation that has finished, holding the
\* complete output of its rewrite; no file that is still open for writing is
\* ever visible under the registry name.
C1_AtomicReplace ==
    /\ \A p \in Procs : outfile[p] # Missing => outfile[p] # registry
    /\ registry \in Procs =>
        /\ pc[registry] = "done"
        /\ Rewrite(files[infile[registry]], args[registry]).exc = "none"
        /\ files[registry] = Rewrite(files[infile[registry]], args[registry]).out

\* an invocation is half way through writing its temp file while the
\* registry name holds the committed output of the other invocation
C1_Witness ==
    \E p \in Procs :
        /\ pc[p] = "loop"
        /\ nread[p] >= 1
        /\ nread[p] < Len(InLines(p))
        /\ files[p] # <<>>
        /\ registry \in Procs \ {p}

\* C2: no step of an invocation other than its successful rename changes
\* what is bound to the registry name: after a failure at any step the
\* registry exists or not as before and its content is the same.
C2_FailureKeepsRegistry ==
    [][(\A p \in Procs : ~(pc[p] = "rename" /\ pc'[p] = "done"))
        => /\ (registry' = Missing) <=> (registry = Missing)
           /\ RegistryContent' = RegistryContent]_vars

\* an invocation failed after it had written to its temp file, and the
\* registry is still the file of the start
C2_Witness ==
    \E p \in Procs :
        /\ pc[p] = "failed"
        /\ files[p] # <<>>
        /\ registry = 0
        /\ files[0] # <<>>

\* C3: once two adds with different keys have both completed, the one that
\* renamed last had read the output of the other, so the registry reflects
\* both operations.
C3_NoLostUpdate ==
    \A p, q \in Procs :
        ( /\ p # q
          /\ pc[p] = "done" /\ pc[q] = "done"
          /\ IsAdd(args[p]) /\ IsAdd(args[q])
          /\ ~args[p].clear_all /\ ~args[q].clear_all
          /\ <<args[p].path, Lower(args[p].clients)>> # <<args[q].path, Lower(args[q].clients)>>
          /\ registry = q )
        => /\ infile[q] = p
           /\ HasEntry(RegistryContent, args[p].path, args[p].clients)

\* C4: when an invocation has ended in failure, with whatever exception, its
\* temp file is gone.
C4_TempDeletedOnFailure ==
    \A p \in Procs : pc[p] \in {"failed", "crashed"} => ~tmppath[p]

\* the text an invocation read, and whether every entry line of a text parses
PreImage(p) == files[infile[p]]

Parses(text) ==
    \A line \in Range(ReadLines(text)) :
        IsComment(line) \/ ~_parse_export(line).err

C6_RemoveIdempotent ==
    ( /\ pc[1] = "done" /\ pc[2] \in Terminal
      /\ args[1] = args[2]
      /\ IsRemove(args[1]) )
    => RegistryContent = files[1]

\* the entry lines (the lines that are not comments) of a text
EntryLines(text) == SelectSeq(ReadLines(text), LAMBDA l : ~IsComment(l))

NewEntry(o) == <<o.path, o.clients, o.options[1]>>

\* C7: after an add with clearAll the registry holds exactly one line that
\* is not a comment, and that line is the new entry.
C7_ClearAllLeavesOneEntry ==
    \A p \in Procs :
        (pc[p] = "done" /\ IsAdd(args[p]) /\ args[p].clear_all)
        => /\ Len(EntryLines(files[p])) = 1
           /\ EntriesOf(EntryLines(files[p])[1]) = <<NewEntry(args[p])>>

\* C8: an add for (p, c1) followed by a remove for (p, c2), c1 and c2 equal
\* when lower-cased, ends with the remove successful and no entry of path p
\* and client c1 (case-insensitively) in the registry.
C8_CaseInsensitiveRemove ==
    ( /\ pc[1] = "done" /\ IsAdd(args[1])
      /\ pc[2] \in Terminal /\ IsRemove(args[2])
      /\ args[2].path = args[1].path
      /\ Lower(args[2].clients) = Lower(args[1].clients) )
    => /\ pc[2] = "done"
       /\ ~HasEntry(RegistryContent, args[1].path, args[1].clients)

\* the add wrote its entry with one spelling of the client, the remove named
\* it with another one and completed
C8_Witness ==
    /\ pc[1] = "done" /\ IsAdd(args[1])
    /\ pc[2] = "done" /\ IsRemove(args[2]) /\ ~args[2].clear_all
    /\ args[2].path = args[1].path
    /\ args[2].clients # args[1].clients
    /\ Lower(args[2].clients) = Lower(args[1].clients)
    /\ \E line \in Range(ReadLines(files[1])) : EntriesOf(line) = <<NewEntry(args[1])>>

\* C9: an add without clearAll for a key that matches no entry leaves the
\* lines of the registry as they were and in their order, and puts the new
\* entry after them as the last line (after the explanatory comment when
\* the registry had no line).
C9_AddAppendsOneLine ==
    \A p \in Procs :
        ( /\ pc[p] = "done" /\ IsAdd(args[p]) /\ ~args[p].clear_all
          /\ ~HasEntry(PreImage(p), args[p].path, args[p].clients) )
        => LET pre == ReadLines(PreImage(p))
               out == ReadLines(files[p])
           IN /\ Len(out) >= Len(pre) + 1
              /\ SubSeq(out, 1, Len(pre)) = pre
              /\ EntriesOf(out[Len(out)]) = <<NewEntry(args[p])>>
              /\ Len(out) = Len(pre) + (IF pre = <<>> THEN 2 ELSE 1)

\* s is a subsequence of t
RECURSIVE IsSubsequence(_, _)
IsSubsequence(s, t) ==
    IF s = <<>> THEN TRUE
    ELSE IF t = <<>> THEN FALSE
    ELSE IF Head(s) = Head(t) THEN IsSubsequence(Tail(s), Tail(t))
    ELSE IsSubsequence(s, Tail(t))

IsBlank(line) == line = <<NL>>

\* C10: the comment lines and the blank lines of the input of a successful
\* rewrite are all in its output, unchanged and in the same order.
C10_CommentsAndBlanksKept ==
    \A p \in Procs :
        pc[p] = "done"
        => IsSubsequence(
              SelectSeq(ReadLines(PreImage(p)), LAMBDA l : IsComment(l) \/ IsBlank(l)),
              ReadLines(files[p]))

\* the invocation has ended and found no registry file when it opened it
FoundMissing(p) == pc[p] \in Terminal /\ infile[p] = Missing

\* C11 as stated: a rewrite that finds no registry file reads it as empty
\* input and succeeds; an add commits the explanatory comment line followed
\* by the line of the new entry.
C11_MissingReadAsEmpty ==
    \A p \in Procs :
        FoundMissing(p)
        => /\ pc[p] = "done"
           /\ IsAdd(args[p])
              => RegistryContent = HeaderComment \o _write_exports(<<NewEntry(args[p])>>)

\* C11: a rewrite that finds no registry file fails with IOError: no registry
\* is created, and the temporary file of the invocation is deleted.
C11_MissingRegistryFails ==
    \A p \in Procs :
        FoundMissing(p)
        => /\ pc[p] = "failed"
           /\ exc[p] = "IOError"
           /\ registry = Missing
           /\ ~tmppath[p]

C11_Witness ==
    \E p \in Procs : FoundMissing(p) /\ IsAdd(args[p]) /\ exc[p] = "IOError"

\* C12: the registry committed by a successful rewrite is never empty, and
\* when the loop carried no line of the input over to the output, the output
\* starts with the explanatory comment line.
C12_NeverEmpty ==
    \A p \in Procs :
        pc[p] = "done"
        => /\ files[p] # <<>>
           /\ lines[p] = 0
              => /\ ReadLines(files[p]) # <<>>
                 /\ ReadLines(files[p])[1] = HeaderComment

\* a remove emptied a registry that held lines
C12_Witness ==
    \E p \in Procs :
        /\ pc[p] = "done" /\ IsRemove(args[p]) /\ lines[p] = 0
        /\ PreImage(p) # <<>>
        /\ files[p] = HeaderComment

\* neither a name nor a value of the option set holds a separator
NoSeparators(S) ==
    \A name \in DOMAIN S :
        /\ ~Contains(name, COMMA) /\ ~Contains(name, EQUALS)
        /\ ~Contains(S[name], COMMA) /\ ~Contains(S[name], EQUALS)

C14_ReloadOnceAfterCommit ==
    /\ [](\A p \in Procs :
            /\ reloads[p] <= 1
            /\ reloads[p] = 1 => params[p].update /\ pc[p] = "done"
            /\ mpc[p] = "update_exports" => params[p].update /\ pc[p] = "done"
            /\ pc[p] \in {"failed", "crashed"} => reloads[p] = 0)
    /\ [][\A p \in Procs :
            reloads'[p] # reloads[p] => registry' = registry /\ files' = files]_vars

\* an invocation committed its rewrite, and its reload then failed
C14_Witness ==
    \E p \in Procs :
        /\ mpc[p] = "fail_json" /\ reloads[p] = 1
        /\ registry = p /\ IsAdd(args[p])

\* C20: an invocation in check mode changes nothing: it never creates a
\* temporary file, never rewrites the registry and never runs the reload
\* command, and its steps leave the registry and every file as they are.
C20_CheckModeChangesNothing ==
    /\ [](\A p \in Procs :
            params[p].check_mode
            => /\ mpc[p] \in {"entered", "returned"}
               /\ pc[p] = "start" /\ ~tmppath[p] /\ files[p] = <<>>
               /\ registry # p /\ reloads[p] = 0)
    /\ [][\A p \in Procs :
            (mpc'[p] # mpc[p] /\ params'[p].check_mode)
            => /\ registry' = registry /\ files' = files
               /\ tmppath' = tmppath /\ reloads' = reloads]_vars

\* an invocation returned in check mode from a system that has a registry,
\* after an earlier invocation rewrote it
C20_Witness ==
    \E p \in Procs :
        /\ mpc[p] = "returned" /\ params[p].check_mode
        /\ registry \in Procs

\* the entries of a line that (path, host) does not match
OtherEntries(line, path, host) ==
    SelectSeq(EntriesOf(line), LAMBDA e : ~SameExport(e, path, host))

\* the line holds an entry that (path, host) matches
Touched(line, path, host) ==
    ~IsComment(line) /\ match_export(EntriesOf(line), path, host)

\* the output lines `out` follow the input lines `pre` one by one: an input
\* line whose matching entry was removed is either absent, when no entry of
\* it remains, or is the one output line at its position, holding exactly
\* the remaining entries in their order
RECURSIVE KeepsOthers(_, _, _, _)
KeepsOthers(pre, out, path, host) ==
    IF pre = <<>> THEN TRUE
    ELSE IF Touched(Head(pre), path, host)
         THEN IF OtherEntries(Head(pre), path, host) = <<>>
              THEN KeepsOthers(Tail(pre), out, path, host)
              ELSE /\ out # <<>>
                   /\ EntriesOf(Head(out)) = OtherEntries(Head(pre), path, host)
                   /\ KeepsOthers(Tail(pre), Tail(out), path, host)
         ELSE /\ out # <<>>
              /\ KeepsOthers(Tail(pre), Tail(out), path, host)

\* C15: after a rewrite without clearAll, every line that held the matching
\* entry together with entries for other clients is one output line at the
\* same position holding the other entries, with the same path, client and
\* option string and in the same order; such a line is dropped only when no
\* entry of it remains.
C15_OtherEntriesKept ==
    \A p \in Procs :
        (pc[p] = "done" /\ ~args[p].clear_all)
        => KeepsOthers(ReadLines(PreImage(p)), ReadLines(files[p]),
                       args[p].path, args[p].clients)

\* the positions of character c in s
Positions(s, c) == {i \in 1..Len(s) : s[i] = c}

\* the parentheses of a host token are unbalanced: an opening one without a
\* closing one, a closing one without an opening one (or before it), or more
\* than one group
Unbalanced(tok) ==
    LET opens == Positions(tok, LPAR)
        closes == Positions(tok, RPAR)
    IN \/ Cardinality(opens) # Cardinality(closes)
       \/ Cardinality(opens) > 1
       \/ \E i \in opens, j \in closes : j < i

\* C16: parsing a line whose host token has unbalanced parentheses fails,
\* and a parse that succeeds never yields an entry whose client or option
\* string holds a parenthesis.
C16_UnbalancedRejected ==
    call.fn = "return"
    => /\ Unbalanced(call.input) => call.err
       /\ ~call.err
          => \A e \in Range(call.ret) :
                /\ ~Contains(e[2], LPAR) /\ ~Contains(e[2], RPAR)
                /\ ~Contains(e[3], LPAR) /\ ~Contains(e[3], RPAR)

\* C17: of the processes that opened the registry for writing at most one
\* holds a returned handle at any time, and the open() of such a process
\* never changes the content of a registry file that exists.
C17_ExclusiveAndContentKept ==
    /\ [](\A p, q \in Procs :
            (session[p].at \in Holding /\ session[q].at \in Holding) => p = q)
    /\ [][\A p \in Procs :
            (session[p].at = "open" /\ session'[p].at # "open" /\ registry # Missing)
            => registry' = registry /\ files'[registry] = files[registry]]_vars

\* the entries of all the lines, in file order
RECURSIVE EntriesOfLines(_)
EntriesOfLines(ls) ==
    IF ls = <<>> THEN <<>> ELSE EntriesOf(Head(ls)) \o EntriesOfLines(Tail(ls))

\* C18: the registry committed by a successful add holds exactly one entry
\* with the path and (case-insensitively) the client of the add, and that
\* entry carries the options of the add.
C18_AddLeavesOneEntry ==
    \A p \in Procs :
        (pc[p] = "done" /\ IsAdd(args[p]))
        => \E es \in {SelectSeq(EntriesOfLines(ReadLines(files[p])),
                                LAMBDA e : SameExport(e, args[p].path, args[p].clients))} :
              /\ Len(es) = 1
              /\ es[1][3] = args[p].options[1]

\* C19: with clearAll off, the same add performed twice in a row leaves the
\* content that performing it once leaves.
C19_AddIdempotent ==
    \A p, q \in Procs :
        ( /\ pc[p] = "done" /\ pc[q] = "done" /\ infile[q] = p
          /\ IsAdd(args[p]) /\ ~args[p].clear_all /\ args[q] = args[p] )
        => files[q] = files[p]

====
